---- MODULE Spec2Model ----
(***************************************************************************)
(* State-update-and-notification mechanism of @view-models/core.           *)
(*                                                                         *)
(* Two containers are modelled, selected by `kind`:                        *)
(*   "derived" - ViewModelWithDerivedState<S, D>                           *)
(*               (src/src/ViewModelWithDerivedState.ts): transform-style   *)
(*               update, computeDerivedState projection;                   *)
(*   "merge"   - ViewModel<S> with prepareState                            *)
(*               (src/src/ViewModel.ts, lines 83-179): merge-style update. *)
(*                                                                         *)
(* update() runs listener bodies, and a listener may call back into the    *)
(* container, so update is split at the points where user code runs: the   *)
(* updater, the projection, and each listener invocation.  `stack` is the  *)
(* chain of update calls in progress (JavaScript call stack).              *)
(***************************************************************************)
EXTENDS Integers, Sequences, FiniteSets, TLC

(* ------------------------------ bounds -------------------------------- *)
NumListeners == 2      \* listener identities 1..NumListeners
MaxUpdates == 2        \* update calls made in one behaviour
MaxDepth == 2          \* update calls nested inside one another
MaxOps == 1            \* container calls one listener invocation makes
MaxInit == 1           \* constructor argument: count in 0..MaxInit
BadCount == 3          \* the count the modelled projection rejects
MaxPass == 3           \* invocations in a pass after which listeners stop subscribing

Listeners == 1..NumListeners
NoListener == 0
Kinds == {"derived", "merge"}
Names == {"Ann", "Bob"}

VARIABLES
  kind,           \* which class the instance is
  phase,          \* "new" (constructor not run), "live", "ctorFailed"
  internalState,  \* _internalState (derived kind only)
  state,          \* _state, what the `state` accessor returns
  listeners,      \* _listeners: Set in insertion order, no duplicates
  stack,          \* update calls in progress, outermost first
  exc,            \* an exception is propagating up the call stack
  \* ---- history (observation) variables ----
  s0,             \* the constructor argument
  numUpdates,     \* update calls started
  projCalls,      \* invocations of computeDerivedState / prepareState
  subs,           \* listeners subscribed and not unsubscribed since
  unsubscribed,   \* listeners unsubscribed and not subscribed again since
  stable,         \* subscribed before the first update, never unsubscribed
  everInvoked,    \* listeners invoked at least once
  seen,           \* per stable listener: `state` as read at each invocation
  afterStates,    \* `state` after each top-level update that committed
  expected,       \* un(...u1(s0)) for the updates u1..un made so far
  flags,          \* what has happened so far in the behaviour
  lastDone,       \* the update call that has just finished (one state only)
  resubscribed,   \* listeners subscribed again while already subscribed
  updaterReturns, \* update calls whose updater has returned normally
  lastCall,       \* the subscribe/unsubscribe/read just made (one state only)
  lastRead,       \* what the last read of `state` returned, since the last update call
  \* ---- the scenarios of the other specifications (unused under Spec) ----
  twoVms,         \* SpecTwo: two instances sharing listener functions
  twins,          \* SpecTwins: identity-projection ViewModel next to a plain container
  todoVm,         \* SpecTodo: the TodoViewModel of the test suite
  calculator,     \* SpecCalc: the CalculatorWithDerivedState of the test suite
  memory,         \* SpecObjects: state objects of a merge-style ViewModel on the heap
  pass,           \* SpecPass: one notification pass, without history
  closures,       \* SpecClosures: the unsubscribe functions subscribe has returned
  tasks           \* SpecAsync: asynchronous addTodo actions in flight

coreVars == <<kind, phase, internalState, state, listeners, stack, exc, s0,
          numUpdates, projCalls, subs, unsubscribed, stable, everInvoked,
          seen, afterStates, expected, flags, lastDone, resubscribed,
          updaterReturns, lastCall, lastRead>>

scenarioVars == <<twoVms, twins, todoVm, calculator, memory, pass, closures,
                  tasks>>

vars == <<coreVars, scenarioVars>>

Undefined == [undefined |-> TRUE]

Range(seq) == {seq[i] : i \in DOMAIN seq}

(* ------------------- user-supplied code (subclass) --------------------- *)

\* updaters handed to update(): the documented increment, a doubling
\* transform, one that throws, and one that returns a fresh object
\* ({count: 0}) without copying the fields of its argument.
Updaters == {"inc", "dbl", "throws", "reset"}

UpdaterThrows(u, s) == u = "throws"

ApplyUpdater(u, s) ==
  CASE u = "inc" -> [s EXCEPT !.count = @ + 1]
    [] u = "dbl" -> [s EXCEPT !.count = @ * 2]
    [] u = "reset" -> [count |-> 0]
    [] OTHER -> s

\* computeDerivedState of the documented counter subclass; the modelled
\* subclass throws on one input.
ProjectionThrows(s) == s.count = BadCount

ComputeDerivedState(s) ==
  [count |-> s.count, isEven |-> s.count % 2 = 0, isPositive |-> s.count > 0]

\* prepareState of the documented FormViewModel: fullName is recomputed.
PrepareState(updatedState) ==
  [updatedState EXCEPT !.fullName = <<updatedState.firstName, updatedState.lastName>>]

\* variant: fields already in the state keep their value
Merge_OldWins(s, p) ==
  [f \in (DOMAIN s) \cup (DOMAIN p) |-> IF f \in DOMAIN s THEN s[f] ELSE p[f]]

\* { ...this._state, ...update }
Merge(s, p) ==
  [f \in (DOMAIN s) \cup (DOMAIN p) |-> IF f \in DOMAIN p THEN p[f] ELSE s[f]]

\* the modelled prepareState rejects one combination of names
PrepareThrows(updatedState) ==
  updatedState.firstName = "Bob" /\ updatedState.lastName = "Ann"

\* the projection of the instance (computeDerivedState / prepareState) throws
Throws(k, internal, merged) ==
  IF k = "derived" THEN ProjectionThrows(internal) ELSE PrepareThrows(merged)

Partials ==
  {[firstName |-> "Bob"], [lastName |-> "Ann"], [fullName |-> <<"Ann", "Ann">>]}

InitialStates(k) ==
  IF k = "derived"
  THEN {[count |-> c] : c \in 0..MaxInit} \cup {[count |-> 0, label |-> "a"]}
  ELSE {[firstName |-> f, lastName |-> "Bob", fullName |-> <<>>] : f \in Names}

UpdateArgs(k) == IF k = "derived" THEN Updaters ELSE Partials

(* ------------------------ JavaScript Set ------------------------------ *)

\* variant: a list of callbacks, subscribing twice registers twice
SetAdd_List(seq, l) == Append(seq, l)

\* variant: adding an entry that is present moves it to the end
SetAdd_Move(seq, l) == Append(SelectSeq(seq, LAMBDA x : x # l), l)

\* Set.prototype.add: appends unless already present.
SetAdd(seq, l) == IF l \in Range(seq) THEN seq ELSE Append(seq, l)

\* variant: the entry is never removed
SetDelete_Noop(seq, l) == seq

\* variant: array splice at indexOf, which removes the last entry when the
\* listener is absent
SetDelete_Splice(seq, l) ==
  IF l \in Range(seq) THEN SelectSeq(seq, LAMBDA x : x # l)
  ELSE SubSeq(seq, 1, Len(seq) - 1)

\* Set.prototype.delete
SetDelete(seq, l) == SelectSeq(seq, LAMBDA x : x # l)

IndexOf(seq, l) ==
  IF l \in Range(seq) THEN CHOOSE i \in DOMAIN seq : seq[i] = l ELSE 0

\* variant: index-based loop over an array that is spliced under it
ShiftCursors_None(stk, p) == stk

\* Live iteration (for...of / forEach over a Set): an entry deleted before
\* the cursor does not make the iteration skip or repeat a later entry.
\* Frames hold `idx`, the position of the next entry to visit.
ShiftCursors(stk, p) ==
  [i \in DOMAIN stk |->
     IF p > 0 /\ p < stk[i].idx THEN [stk[i] EXCEPT !.idx = @ - 1] ELSE stk[i]]

\* an unsubscribe function exists for l: subscribe(l) has been called
HasUnsubscribe(l) == l \in subs \cup unsubscribed

(* ----------------- the statements of the two classes ------------------- *)

\* variant: the constructor stores its argument as it is
InitialDerived_Raw(k, init) == init

\* constructor. derived: _state = computeDerivedState(_internalState);
\* merge: _state = prepareState(initialState)
InitialDerived(k, init) ==
  IF k = "derived" THEN ComputeDerivedState(init) ELSE PrepareState(init)

\* variant: the updater's result is dropped
NextInternal_Lost(u, cur) == cur

\* variant: the updater's result is merged into the old internal state
NextInternal_Merged(u, cur) == Merge(cur, ApplyUpdater(u, cur))

\* update, derived: this._internalState = updater(this._internalState)
NextInternal(u, cur) == ApplyUpdater(u, cur)

\* variant: the projection is skipped when the updater returns an equal state
AfterUpdater_Memo(old, new) == IF old = new THEN "notify" ELSE "project"

\* update, derived: line 133 follows line 132 unconditionally
AfterUpdater(old, new) == "project"

\* variant: the getter recomputes from the constructor argument
StateGetter_Initial(initial, derived) ==
  IF kind = "derived" THEN ComputeDerivedState(initial) ELSE PrepareState(initial)

\* get state(): return this._state
StateGetter(initial, derived) == derived

\* variant: listeners are notified before the derived state is replaced
NextDerived_Stale(k, internal, cur, u) == cur

\* update. derived: this._state = computeDerivedState(this._internalState);
\* merge: this._state = prepareState({ ...this._state, ...update })
NextDerived(k, internal, cur, u) ==
  IF k = "derived" THEN ComputeDerivedState(internal)
  ELSE PrepareState(Merge(cur, u))

\* variant: the merged object is stored before prepareState is applied to it
OnProjectionThrow_Stored(k, cur, u) == IF k = "merge" THEN Merge(cur, u) ELSE cur

\* update, line 133 / ViewModel.ts line 137: the right-hand side throws, so
\* the assignment to _state does not take place
OnProjectionThrow(k, cur, u) == cur


\* listener(): the argument list of the call
ListenerArgs(derived) == <<>>

\* variant: update swallows what user code throws
Raised_Swallowed(outcome) == FALSE

\* update has no try/catch: whatever user code throws leaves update
Raised(outcome) == outcome # "returned"

\* the loop over this._listeners starts at the first entry
FirstIndex == 1

\* variant: the loop runs over the entries the set had when the pass began
LoopLength_Snapshot(seq, atStart) == Cardinality(atStart)

\* for...of over the Set itself: the loop ends when the set has no entry left
LoopLength(seq, atStart) == Len(seq)

(* ------------------------------ frames -------------------------------- *)

Top == stack[Len(stack)]

\* variant: a call that ends stays registered as in progress
Pop_Stuck(stk) == stk

\* a call ends: its frame leaves the call stack
Pop(stk) == SubSeq(stk, 1, Len(stk) - 1)

\* One update call in progress.  pc, u, idx, cur are the call's position;
\* the other fields record what the call has observed so far.
NewFrame(u) ==
  [pc |-> IF kind = "derived" THEN "updater" ELSE "project",
   u |-> u,                     \* the updater / the partial state
   idx |-> FirstIndex,          \* position of the next listener to invoke
   cur |-> NoListener,          \* the listener now running
   ops |-> 0,                   \* container calls made by the running listener
   preInternal |-> internalState, preState |-> state, preProj |-> projCalls,
   committed |-> Undefined,     \* derived state of what this call committed
   atStart |-> {},              \* listeners subscribed when the pass began
   invoked |-> <<>>,            \* listeners invoked by this pass, in order
   mutated |-> FALSE,           \* subscribe/unsubscribe called during the pass
   nested |-> FALSE,            \* a listener of this pass called update
   skipped |-> {},              \* unsubscribed during the pass before their turn
   entryRead |-> Undefined,     \* `state` as the running listener found it
   entryNested |-> FALSE,       \* `nested` when the running listener started
   curGone |-> FALSE,           \* the running listener was not subscribed
   updaterCalls |-> 0,          \* times this call has invoked its updater
   arg |-> Undefined,           \* what the updater was invoked with
   stored |-> Undefined,        \* u(preInternal): what line 132 has to store
   merged |-> Undefined,        \* merge kind: the object handed to prepareState
   firstNested |-> stack # <<>> /\ ~stack[Len(stack)].nested,
                                \* first update called during the caller's pass
   nestedResult |-> Undefined,  \* derived state committed by the last nested
                                \* update of this pass (Failed if it raised)
   entryArgs |-> <<>>,          \* arguments the running listener was called with
   depth |-> Len(stack) + 1,    \* position of the call on the call stack
   afterRaise |-> flags.raisedEver, \* an earlier update call has raised
   preListeners |-> listeners,  \* this._listeners when update was called
   added |-> {},                \* subscribed during the pass, absent at its start
   dropped |-> {}]              \* removed from the set during the pass

NoneDone == [NewFrame("none") EXCEPT
               !.pc = "none", !.preInternal = Undefined,
               !.preState = Undefined, !.preProj = 0, !.firstNested = FALSE,
               !.depth = 0, !.afterRaise = FALSE, !.preListeners = <<>>]

\* (a call that ends because its updater threw has invoked the updater too)
Done(f, outcome) ==
  [f EXCEPT !.pc = outcome,
            !.updaterCalls = IF outcome = "updaterThrew" THEN @ + 1 ELSE @,
            !.arg = IF outcome = "updaterThrew" THEN internalState ELSE @]

Failed == [failed |-> TRUE]

\* what an update call that ends leaves behind for the pass that called it
ResultOf(f, outcome) ==
  IF outcome # "returned" THEN Failed
  ELSE IF f.nestedResult # Undefined THEN f.nestedResult ELSE f.committed

\* the fields and counters a call that is not update must leave alone
Snapshot ==
  [listeners |-> listeners, internalState |-> internalState, state |-> state,
   projCalls |-> projCalls, everInvoked |-> everInvoked,
   cursors |-> [i \in DOMAIN stack |-> stack[i].idx]]

NoCall == [op |-> "none", l |-> NoListener, present |-> FALSE,
           ret |-> Undefined, prev |-> Undefined, pre |-> Undefined]

Call(op, l, ret) ==
  [op |-> op, l |-> l, present |-> l \in Range(listeners), ret |-> ret,
   prev |-> lastRead, pre |-> Snapshot]

NoFlags == [nestedEver |-> FALSE, threwEver |-> FALSE, raisedEver |-> FALSE]

\* The logs (seen, afterStates) describe behaviours without nested updates;
\* they are emptied and closed at the first nested update.
NoLog == [l \in Listeners |-> <<>>]
Logging == ~flags.nestedEver

Idle == stack = <<>> /\ ~exc
InListener ==
  stack # <<>> /\ ~exc /\ Top.pc = "notify" /\ Top.cur # NoListener
CanCall == phase = "live" /\ (Idle \/ (InListener /\ Top.ops < MaxOps))

\* the calling listener (if any) has made one more container call
CountOp(stk) ==
  IF stk = <<>> THEN stk ELSE [stk EXCEPT ![Len(stk)].ops = @ + 1]

(* ------------------------------- Init --------------------------------- *)

\* no instance has been constructed
Fresh ==
  /\ phase = "new"
  /\ internalState = Undefined
  /\ state = Undefined
  /\ listeners = <<>>
  /\ stack = <<>>
  /\ exc = FALSE
  /\ s0 = Undefined
  /\ numUpdates = 0
  /\ projCalls = 0
  /\ subs = {}
  /\ unsubscribed = {}
  /\ stable = {}
  /\ everInvoked = {}
  /\ seen = NoLog
  /\ afterStates = <<>>
  /\ expected = Undefined
  /\ flags = NoFlags
  /\ lastDone = NoneDone
  /\ resubscribed = {}
  /\ updaterReturns = 0
  /\ lastCall = NoCall
  /\ lastRead = Undefined

Init ==
  /\ kind \in Kinds
  /\ Fresh
  /\ closures = Undefined /\ tasks = Undefined
  /\ twoVms = Undefined /\ twins = Undefined /\ todoVm = Undefined
  /\ calculator = Undefined /\ memory = Undefined /\ pass = Undefined

(* ---------------------------- constructor ----------------------------- *)

Construct(init) ==
  /\ phase = "new"
  /\ s0' = init
  /\ expected' = IF kind = "derived" THEN init ELSE Undefined
  /\ projCalls' = projCalls + 1
  /\ internalState' = IF kind = "derived" THEN init ELSE internalState
  /\ IF Throws(kind, init, init)
     THEN phase' = "ctorFailed" /\ state' = state
     ELSE phase' = "live" /\ state' = InitialDerived(kind, init)
  /\ UNCHANGED <<kind, listeners, stack, exc, numUpdates, subs, unsubscribed,
                 stable, everInvoked, seen, afterStates, flags, lastDone>>
  /\ UNCHANGED <<resubscribed, lastRead, updaterReturns, lastCall>>
  /\ UNCHANGED scenarioVars

(* ----------------------- subscribe / unsubscribe ---------------------- *)

\* subscribe(listener): this._listeners.add(listener)
Subscribe(l) ==
  /\ CanCall
  /\ \A i \in DOMAIN stack : Len(stack[i].invoked) < MaxPass
  /\ listeners' = SetAdd(listeners, l)
  /\ stack' = [i \in DOMAIN stack |->
                 [CountOp(stack)[i] EXCEPT
                    !.mutated = TRUE,
                    !.skipped = @ \ {l},
                    !.added = IF l \notin Range(listeners)
                                 /\ l \notin stack[i].atStart
                              THEN @ \cup {l} ELSE @]]
  /\ subs' = subs \cup {l}
  /\ unsubscribed' = unsubscribed \ {l}
  /\ stable' = IF numUpdates = 0 THEN stable \cup {l} ELSE stable
  /\ resubscribed' = IF l \in subs THEN resubscribed \cup {l} ELSE resubscribed
  /\ lastDone' = NoneDone
  /\ lastCall' = Call("subscribe", l, Undefined)
  /\ UNCHANGED <<kind, phase, internalState, state, exc, s0, numUpdates,
                 projCalls, everInvoked, seen, afterStates, expected, flags>>
  /\ UNCHANGED <<lastRead, updaterReturns>>
  /\ UNCHANGED scenarioVars

\* the function returned by subscribe: this._listeners.delete(listener)
Unsubscribe(l) ==
  /\ CanCall
  /\ HasUnsubscribe(l)
  /\ listeners' = SetDelete(listeners, l)
  /\ stack' = [i \in DOMAIN stack |->
                 [ShiftCursors(CountOp(stack), IndexOf(listeners, l))[i]
                    EXCEPT !.mutated = TRUE,
                           !.skipped =
                              IF l \in subs /\ l \notin Range(stack[i].invoked)
                              THEN @ \cup {l} ELSE @,
                           !.dropped =
                              IF l \in Range(listeners) THEN @ \cup {l} ELSE @]]
  /\ subs' = subs \ {l}
  /\ unsubscribed' = unsubscribed \cup {l}
  /\ stable' = stable \ {l}
  /\ seen' = [seen EXCEPT ![l] = <<>>]
  /\ resubscribed' = resubscribed \ {l}
  /\ lastDone' = NoneDone
  /\ lastCall' = Call("unsubscribe", l, Undefined)
  /\ UNCHANGED <<kind, phase, internalState, state, exc, s0, numUpdates,
                 projCalls, everInvoked, afterStates, expected, flags>>
  /\ UNCHANGED <<lastRead, updaterReturns>>
  /\ UNCHANGED scenarioVars

(* ------------------------------ update -------------------------------- *)

\* An update call ends (returns or raises): its frame leaves the stack.
Finish(outcome) ==
  /\ lastDone' = Done(Top, outcome)
  /\ lastCall' = NoCall
  /\ stack' = IF Len(stack) = 1 THEN Pop(stack)
               ELSE [Pop(stack) EXCEPT
                       ![Len(stack) - 1].nestedResult = ResultOf(Top, outcome)]
  /\ exc' = Raised(outcome)
  /\ flags' = [flags EXCEPT !.threwEver = @ \/ outcome = "listenerThrew",
                            !.raisedEver = @ \/ outcome # "returned"]
  /\ afterStates' =
       IF Len(stack) = 1 /\ Logging /\ Top.pc = "notify"
       THEN Append(afterStates, state) ELSE afterStates
  /\ expected' =
       IF outcome = "returned" /\ Len(stack) = 1 /\ expected # Undefined
       THEN ApplyUpdater(Top.u, expected) ELSE Undefined

\* a subclass method calls this.update(u), from outside or from a listener
CallUpdate(u) ==
  /\ CanCall
  /\ numUpdates < MaxUpdates
  /\ Len(stack) < MaxDepth
  /\ stack' = Append(IF stack = <<>> THEN stack
                     ELSE [CountOp(stack) EXCEPT ![Len(stack)].nested = TRUE],
                     NewFrame(u))
  /\ numUpdates' = numUpdates + 1
  /\ lastRead' = Undefined
  /\ flags' = [flags EXCEPT !.nestedEver = @ \/ stack # <<>>]
  /\ IF stack # <<>>
     THEN seen' = NoLog /\ afterStates' = <<>> /\ expected' = Undefined
     ELSE UNCHANGED <<seen, afterStates, expected>>
  /\ lastDone' = NoneDone /\ lastCall' = NoCall
  /\ UNCHANGED <<kind, phase, internalState, state, listeners, exc, s0,
                 projCalls, subs, unsubscribed, stable, everInvoked>>
  /\ UNCHANGED <<resubscribed, updaterReturns>>
  /\ UNCHANGED scenarioVars

\* this._internalState = updater(this._internalState);
StepUpdater ==
  /\ stack # <<>> /\ ~exc /\ Top.pc = "updater"
  /\ IF UpdaterThrows(Top.u, internalState)
     THEN /\ Finish("updaterThrew")
          /\ UNCHANGED <<internalState, updaterReturns>>
     ELSE /\ internalState' = NextInternal(Top.u, internalState)
          /\ updaterReturns' = updaterReturns + 1
          /\ stack' = [stack EXCEPT ![Len(stack)] =
                         [@ EXCEPT !.pc = AfterUpdater(internalState,
                                                       internalState'),
                                   !.updaterCalls = @ + 1,
                                   !.arg = internalState,
                                   !.stored = ApplyUpdater(Top.u, Top.preInternal)]]
          /\ lastDone' = NoneDone /\ lastCall' = NoCall
          /\ UNCHANGED <<exc, flags, afterStates, expected>>
  /\ UNCHANGED <<kind, phase, state, listeners, s0, numUpdates, projCalls,
                 subs, unsubscribed, stable, everInvoked, seen>>
  /\ UNCHANGED <<resubscribed, lastRead>>
  /\ UNCHANGED scenarioVars

\* the frame enters its notification pass
StartPass(stk, committed) ==
  [stk EXCEPT ![Len(stk)] =
     [@ EXCEPT !.pc = "notify", !.committed = committed, !.atStart = subs]]

\* derived: this._state = this.computeDerivedState(this._internalState);
\* merge:   this._state = this.prepareState({ ...this._state, ...update });
StepProject ==
  /\ stack # <<>> /\ ~exc /\ Top.pc = "project"
  /\ projCalls' = projCalls + 1
  /\ IF Throws(kind, internalState, Merge(state, Top.u))
     THEN /\ Finish("projectionThrew")
          /\ state' = OnProjectionThrow(kind, state, Top.u)
     ELSE /\ state' = NextDerived(kind, internalState, state, Top.u)
          /\ stack' = [StartPass(stack,
                         IF kind = "derived"
                         THEN ComputeDerivedState(internalState)
                         ELSE PrepareState(Merge(state, Top.u)))
                        EXCEPT ![Len(stack)].merged =
                          IF kind = "merge" THEN Merge(state, Top.u)
                          ELSE Undefined]
          /\ lastDone' = NoneDone /\ lastCall' = NoCall
          /\ UNCHANGED <<exc, flags, afterStates, expected>>
  /\ UNCHANGED <<kind, phase, internalState, listeners, s0, numUpdates, subs,
                 unsubscribed, stable, everInvoked, seen>>
  /\ UNCHANGED <<resubscribed, lastRead, updaterReturns>>
  /\ UNCHANGED scenarioVars

\* for (const listener of this._listeners) { listener(); }   - one iteration
Invoke ==
  /\ stack # <<>> /\ ~exc /\ Top.pc = "notify" /\ Top.cur = NoListener
  /\ Top.idx <= LoopLength(listeners, Top.atStart)
  /\ LET l == listeners[Top.idx] IN
       /\ stack' = [stack EXCEPT ![Len(stack)] =
                      [@ EXCEPT !.cur = l, !.idx = @ + 1, !.ops = 0,
                                !.invoked = Append(@, l),
                                !.entryRead = state,
                                !.entryArgs = ListenerArgs(state),
                                !.entryNested = Top.nested,
                                !.curGone = l \notin subs]]
       /\ seen' = IF Logging /\ l \in stable
                  THEN [seen EXCEPT ![l] = Append(@, state)] ELSE seen
       /\ everInvoked' = everInvoked \cup {l}
  /\ lastDone' = NoneDone /\ lastCall' = NoCall
  /\ UNCHANGED <<kind, phase, internalState, state, listeners, exc, s0,
                 numUpdates, projCalls, subs, unsubscribed, stable,
                 afterStates, expected, flags>>
  /\ UNCHANGED <<resubscribed, lastRead, updaterReturns>>
  /\ UNCHANGED scenarioVars

\* the loop is exhausted: update returns
UpdateReturn ==
  /\ stack # <<>> /\ ~exc /\ Top.pc = "notify" /\ Top.cur = NoListener
  /\ Top.idx > LoopLength(listeners, Top.atStart)
  /\ Finish("returned")
  /\ UNCHANGED <<kind, phase, internalState, state, listeners, s0, numUpdates,
                 projCalls, subs, unsubscribed, stable, everInvoked, seen>>
  /\ UNCHANGED <<resubscribed, lastRead, updaterReturns>>
  /\ UNCHANGED scenarioVars

(* ------------------------------- state -------------------------------- *)

\* get state(), read by outside code or by the running listener
ReadState ==
  /\ phase = "live" /\ (Idle \/ InListener)
  /\ lastCall' = Call("read", NoListener, StateGetter(s0, state))
  /\ lastRead' = StateGetter(s0, state)
  /\ lastDone' = NoneDone
  /\ UNCHANGED <<kind, phase, internalState, state, listeners, stack, exc, s0,
                 numUpdates, projCalls, subs, unsubscribed, stable,
                 everInvoked, seen, afterStates, expected, flags,
                 resubscribed, updaterReturns>>
  /\ UNCHANGED scenarioVars

(* --------------------------- listener bodies --------------------------- *)

ListenerReturn ==
  /\ InListener
  /\ stack' = [stack EXCEPT ![Len(stack)].cur = NoListener]
  /\ lastDone' = NoneDone /\ lastCall' = NoCall
  /\ UNCHANGED <<kind, phase, internalState, state, listeners, exc, s0,
                 numUpdates, projCalls, subs, unsubscribed, stable,
                 everInvoked, seen, afterStates, expected, flags>>
  /\ UNCHANGED <<resubscribed, lastRead, updaterReturns>>
  /\ UNCHANGED scenarioVars

\* The running listener throws, or lets the exception of a nested update
\* pass through; update has no try/catch, so its call ends as well.
ListenerThrow ==
  /\ stack # <<>> /\ Top.pc = "notify" /\ Top.cur # NoListener
  /\ Finish("listenerThrew")
  /\ UNCHANGED <<kind, phase, internalState, state, listeners, s0, numUpdates,
                 projCalls, subs, unsubscribed, stable, everInvoked, seen>>
  /\ UNCHANGED <<resubscribed, lastRead, updaterReturns>>
  /\ UNCHANGED scenarioVars

\* the listener that called the failed nested update catches the exception
ListenerCatch ==
  /\ exc /\ stack # <<>>
  /\ exc' = FALSE
  /\ lastDone' = NoneDone /\ lastCall' = NoCall
  /\ UNCHANGED <<kind, phase, internalState, state, listeners, stack, s0,
                 numUpdates, projCalls, subs, unsubscribed, stable,
                 everInvoked, seen, afterStates, expected, flags>>
  /\ UNCHANGED <<resubscribed, lastRead, updaterReturns>>
  /\ UNCHANGED scenarioVars

\* the exception reaches the code that called the outermost update
CallerCatch ==
  /\ exc /\ stack = <<>>
  /\ exc' = FALSE
  /\ lastDone' = NoneDone /\ lastCall' = NoCall
  /\ UNCHANGED <<kind, phase, internalState, state, listeners, stack, s0,
                 numUpdates, projCalls, subs, unsubscribed, stable,
                 everInvoked, seen, afterStates, expected, flags>>
  /\ UNCHANGED <<resubscribed, lastRead, updaterReturns>>
  /\ UNCHANGED scenarioVars

Next ==
  \/ \E k \in Kinds : \E init \in InitialStates(k) : kind = k /\ Construct(init)
  \/ \E l \in Listeners : Subscribe(l)
  \/ \E l \in Listeners : Unsubscribe(l)
  \/ \E u \in UpdateArgs(kind) : CallUpdate(u)
  \/ StepUpdater
  \/ StepProject
  \/ Invoke
  \/ UpdateReturn
  \/ ReadState
  \/ ListenerReturn
  \/ ListenerThrow
  \/ ListenerCatch
  \/ CallerCatch

Spec == Init /\ [][Next]_vars

(* ======================= properties: C1 .. C10 ======================== *)

NoDuplicates(seq) == \A i, j \in DOMAIN seq : seq[i] = seq[j] => i = j

\* a listener of the pass of frame f is running
Running(f) == f.pc = "notify" /\ f.cur # NoListener

\* C1: whenever no update is executing (after construction, after an update
\* returned or raised), `state` equals computeDerivedState of the current
\* internal state.
C1_StateMatchesInternal ==
  (kind = "derived" /\ phase = "live" /\ stack = <<>>)
    => /\ ~ProjectionThrows(internalState)
       /\ state = ComputeDerivedState(internalState)

\* C2: after a sequence of successful updates u1..un without nested updates,
\* the internal state is un(...u1(s0)) and `state` is its projection.
C2_UpdatesCompose ==
  (kind = "derived" /\ phase = "live" /\ stack = <<>> /\ expected # Undefined)
    => /\ internalState = expected
       /\ state = ComputeDerivedState(expected)

C2_Witness ==
  /\ kind = "derived" /\ Idle /\ expected # Undefined
  /\ numUpdates = 2 /\ expected.count = 2 * (s0.count + 1)

\* C3: right after construction `state` is the projection of the constructor
\* argument (computeDerivedState, or prepareState in the merge-style class),
\* and no listener has been invoked.
C3_ConstructionProjects ==
  (phase = "live" /\ numUpdates = 0)
    => /\ state = (IF kind = "derived" THEN ComputeDerivedState(s0)
                   ELSE PrepareState(s0))
       /\ everInvoked = {}

C3_Witness ==
  phase = "live" /\ numUpdates = 0 /\ state # s0 /\ subs # {}

\* C4: an update that returns, during which no listener called subscribe,
\* unsubscribe or update, has invoked exactly the listeners subscribed at
\* that time, each once.
C4_EachSubscribedOnce ==
  (lastDone.pc = "returned" /\ ~lastDone.mutated /\ ~lastDone.nested)
    => /\ Range(lastDone.invoked) = lastDone.atStart
       /\ NoDuplicates(lastDone.invoked)

\* an update just returned that skipped a listener an earlier update invoked
C4_Witness ==
  /\ lastDone.pc = "returned" /\ ~lastDone.mutated /\ ~lastDone.nested
  /\ lastDone.invoked # <<>>
  /\ \E l \in everInvoked \cap unsubscribed : l \notin Range(lastDone.invoked)

C6_Original ==
  \A i \in DOMAIN stack :
    (kind = "derived" /\ Running(stack[i]))
      => stack[i].entryRead = stack[i].committed

\* C6 as amended: the same, for invocations before which no listener of the
\* pass has called update.
C6_CommittedUnlessNested ==
  \A i \in DOMAIN stack :
    (Running(stack[i]) /\ ~stack[i].entryNested)
      => stack[i].entryRead = stack[i].committed

\* the second listener of a pass that changed the state is running
C6_Witness ==
  \E i \in DOMAIN stack :
    /\ Running(stack[i]) /\ ~stack[i].entryNested
    /\ Len(stack[i].invoked) = 2
    /\ stack[i].committed # stack[i].preState

\* C7: a listener unsubscribed during a pass before its turn is not invoked
\* in the rest of the pass, nor later, unless it is subscribed again: every
\* listener invoked is subscribed at that moment.
C7_UnsubscribedNotInvoked ==
  /\ \A i \in DOMAIN stack :
       /\ Running(stack[i]) => ~stack[i].curGone
       /\ stack[i].skipped \cap Range(stack[i].invoked) = {}
  /\ lastDone.skipped \cap Range(lastDone.invoked) = {}

\* a pass has returned that left out a listener unsubscribed on the way
C7_Witness ==
  /\ lastDone.pc = "returned" /\ lastDone.skipped # {}
  /\ lastDone.invoked # <<>>

\* C8: within the pass of one update call no listener is invoked twice.
C8_NoListenerTwice ==
  /\ \A i \in DOMAIN stack : NoDuplicates(stack[i].invoked)
  /\ NoDuplicates(lastDone.invoked)

\* C9: when the updater throws, the exception reaches the caller, internal
\* and derived state are as before the call, computeDerivedState has not
\* run and no listener was invoked.
C9_UpdaterThrowsNoChange ==
  lastDone.pc = "updaterThrew"
    => /\ exc
       /\ internalState = lastDone.preInternal
       /\ state = lastDone.preState
       /\ projCalls = lastDone.preProj
       /\ lastDone.invoked = <<>>

\* the updater threw in an update that followed a committed one
C9_Witness ==
  /\ lastDone.pc = "updaterThrew" /\ kind = "derived"
  /\ internalState # s0 /\ subs # {}

\* C10: when computeDerivedState throws during update, the exception reaches
\* the caller, no listener is invoked and internal and derived state are as
\* before the call.
C10_ProjectionThrowsNoChange ==
  lastDone.pc = "projectionThrew"
    => /\ exc
       /\ lastDone.invoked = <<>>
       /\ internalState = lastDone.preInternal
       /\ state = lastDone.preState

(* ======================= properties: C11 .. C20 ======================= *)

Count(seq, x) == Cardinality({i \in DOMAIN seq : seq[i] = x})

\* the call of frame f has replaced the state and not finished its pass
Committing(f) ==
  IF kind = "derived" THEN f.pc \in {"project", "notify"} ELSE f.pc = "notify"

\* C11: subscribe has set semantics: a listener subscribed any number of
\* times is in the observer set once, one unsubscribe call removes it, and
\* an update invokes a listener subscribed several times exactly once.
C11_SetSemantics ==
  /\ \A l \in Listeners : Count(listeners, l) = (IF l \in subs THEN 1 ELSE 0)
  /\ lastCall.op = "unsubscribe" => lastCall.l \notin Range(listeners)
  /\ (lastDone.pc = "returned" /\ ~lastDone.mutated /\ ~lastDone.nested)
       => \A l \in resubscribed : Count(lastDone.invoked, l) = 1

\* an update returned whose pass invoked a listener subscribed twice
C11_Witness ==
  /\ lastDone.pc = "returned" /\ ~lastDone.mutated /\ ~lastDone.nested
  /\ resubscribed \cap Range(lastDone.invoked) # {}

\* C12: unsubscribing a listener that is not subscribed (a second call of its
\* unsubscribe function) raises nothing and changes neither the observer
\* set, nor a running iteration over it, nor internal or derived state; a
\* listener is not invoked by a step that starts and ends with it
\* unsubscribed, so one unsubscribed before any update is never invoked.
C12_UnsubscribeIdempotent ==
  /\ [](lastCall.op = "unsubscribe" /\ ~lastCall.present
          => /\ ~exc
             /\ listeners = lastCall.pre.listeners
             /\ internalState = lastCall.pre.internalState
             /\ state = lastCall.pre.state
             /\ \A i \in DOMAIN stack : stack[i].idx = lastCall.pre.cursors[i])
  /\ [][\A l \in unsubscribed \cap unsubscribed' :
          l \in everInvoked' => l \in everInvoked]_vars

\* a second unsubscribe was made after an update, another listener remaining
C12_Witness ==
  /\ lastCall.op = "unsubscribe" /\ ~lastCall.present
  /\ listeners # <<>> /\ numUpdates > 0

\* C13: merge-style update: the object handed to prepareState has exactly
\* the fields of the old state and of the partial, a field of the partial
\* with the partial's value taken whole, any other field with its old value.
C13_ShallowMerge ==
  \A i \in DOMAIN stack :
    LET f == stack[i] IN
      (kind = "merge" /\ f.pc = "notify")
        => /\ DOMAIN f.merged = (DOMAIN f.preState) \cup (DOMAIN f.u)
           /\ \A x \in DOMAIN f.u : f.merged[x] = f.u[x]
           /\ \A x \in (DOMAIN f.preState) \ (DOMAIN f.u) :
                f.merged[x] = f.preState[x]

\* a partial replaced the nested value fullName and left firstName alone
C13_Witness ==
  \E i \in DOMAIN stack :
    LET f == stack[i] IN
      /\ kind = "merge" /\ f.pc = "notify"
      /\ "fullName" \in DOMAIN f.u
      /\ f.merged.fullName # f.preState.fullName
      /\ f.merged.firstName = f.preState.firstName

\* C14: transform-style update: the updater is invoked once per update call,
\* with the current internal state, and what it returns is the new internal
\* state as it is (a field it omits is gone).
C14_UpdaterOnceOnInternal ==
  kind = "derived" =>
    /\ \A i \in DOMAIN stack :
         LET f == stack[i] IN
           /\ f.updaterCalls = (IF f.pc = "updater" THEN 0 ELSE 1)
           /\ f.pc # "updater" => f.arg = f.preInternal
    /\ (stack # <<>> /\ Top.pc = "project")
         => /\ internalState = ApplyUpdater(Top.u, Top.preInternal)
            /\ DOMAIN internalState = DOMAIN ApplyUpdater(Top.u, Top.preInternal)
    /\ lastDone.pc # "none"
         => lastDone.updaterCalls = 1 /\ lastDone.arg = lastDone.preInternal

\* the updater returned an object without the field label of its argument
C14_Witness ==
  /\ kind = "derived" /\ stack # <<>> /\ Top.pc = "project"
  /\ "label" \in DOMAIN Top.preInternal
  /\ "label" \notin DOMAIN internalState

\* C15: order of the steps of update: nothing is invoked and `state` is
\* untouched until the projection has run; the projection is applied to the
\* new internal state (merge kind: to the merged object) and stored before
\* the first listener is invoked, which therefore reads the new state.
C15_OrderOfSteps ==
  \A i \in DOMAIN stack :
    LET f == stack[i] IN
      /\ f.pc \in {"updater", "project"}
           => /\ i = Len(stack)
              /\ f.invoked = <<>>
              /\ projCalls = f.preProj
              /\ state = f.preState
      /\ (kind = "derived" /\ f.pc = "updater")
           => internalState = f.preInternal
      /\ (kind = "derived" /\ f.pc = "project") => internalState = f.stored
      /\ f.pc = "notify"
           => /\ f.committed = (IF kind = "derived"
                                THEN ComputeDerivedState(f.stored)
                                ELSE PrepareState(f.merged))
              /\ (i = Len(stack) /\ f.invoked = <<>>)
                   => state = f.committed /\ projCalls = f.preProj + 1
              /\ (f.cur # NoListener /\ Len(f.invoked) = 1)
                   => f.entryRead = f.committed

\* the first listener of a pass is running and the update changed the state
C15_Witness ==
  \E i \in DOMAIN stack :
    /\ Running(stack[i]) /\ Len(stack[i].invoked) = 1
    /\ stack[i].committed # stack[i].preState

\* C16: computeDerivedState has run once for the constructor and once for
\* every update call whose updater returned (a call whose updater has just
\* returned is about to run it); subscribe, unsubscribe and reading `state`
\* do not run it.
C16_ProjectionCount ==
  /\ (kind = "derived" /\ phase # "new")
       => projCalls + Cardinality({i \in DOMAIN stack : stack[i].pc = "project"})
            = 1 + updaterReturns
  /\ lastCall.op # "none" => projCalls = lastCall.pre.projCalls

\* `state` is read after two updates, the updater of one of which threw
C16_Witness ==
  /\ kind = "derived" /\ Idle /\ lastCall.op = "read"
  /\ numUpdates = 2 /\ updaterReturns = 1 /\ projCalls = 2

\* C17: when update returns, no listener is running on its behalf and every
\* listener then in the observer set has been invoked by its pass: nothing
\* is left to be invoked later.
C17_NotificationSynchronous ==
  lastDone.pc = "returned"
    => /\ lastDone.cur = NoListener
       /\ Range(listeners) \subseteq Range(lastDone.invoked)

\* an update returned that had two listeners to invoke
C17_Witness ==
  /\ lastDone.pc = "returned" /\ stack = <<>>
  /\ Len(lastDone.invoked) = 2 /\ Len(listeners) = 2

\* C18: an update called by a listener starts from what the calling update
\* committed, runs while the calling pass is suspended inside that listener,
\* and has finished its own pass when it returns; the calling pass then goes
\* on to the end of the observer set, and when the calling update returns
\* `state` is what the nested update committed.
C18_NestedUpdateSequential ==
  /\ \A i \in DOMAIN stack :
       /\ i < Len(stack) => Running(stack[i])
       /\ (i > 1 /\ stack[i].firstNested)
            => /\ stack[i].preState = stack[i - 1].committed
               /\ kind = "derived" => stack[i].preInternal = stack[i - 1].stored
  /\ (lastDone.pc = "returned" /\ stack # <<>>)
       => /\ ~exc /\ Running(Top)
          /\ Range(listeners) \subseteq Range(lastDone.invoked)
          /\ Top.nestedResult # Failed => state = Top.nestedResult
  /\ (lastDone.pc = "returned" /\ lastDone.nestedResult \notin {Undefined, Failed})
       => /\ ~exc
          /\ Range(listeners) \subseteq Range(lastDone.invoked)
          /\ state = lastDone.nestedResult
          /\ kind = "derived" => state = ComputeDerivedState(internalState)

\* the outermost update returned; a nested update changed the state and the
\* pass invoked another listener after it
C18_Witness ==
  /\ lastDone.pc = "returned" /\ stack = <<>>
  /\ lastDone.nestedResult \notin {Undefined, Failed}
  /\ lastDone.nestedResult # lastDone.committed
  /\ lastDone.entryNested /\ Len(lastDone.invoked) >= 2

\* C19 as claimed: at most one update call is in its committing phase, and
\* until the pass of a call has finished the state is what that call stored.
C19_Original ==
  /\ Cardinality({i \in DOMAIN stack : Committing(stack[i])}) <= 1
  /\ \A i \in DOMAIN stack : stack[i].pc = "notify" => state = stack[i].committed

\* C19 as amended: the same, except for updates called by a listener of the
\* pass: at most one committing call is not suspended inside a listener, and
\* the state is what a call stored as long as no listener of its pass has
\* called update.
C19_AtomicUnlessNested ==
  /\ Cardinality({i \in DOMAIN stack :
                    Committing(stack[i]) /\ ~Running(stack[i])}) <= 1
  /\ \A i \in DOMAIN stack : Committing(stack[i]) => \A j \in 1..(i - 1) : Running(stack[j])
  /\ \A i \in DOMAIN stack :
       LET f == stack[i] IN
         (Committing(f) /\ ~f.nested)
           => /\ kind = "derived" => internalState = f.stored
              /\ f.pc = "notify" => state = f.committed

\* the second listener of a pass runs, the first has subscribed or
\* unsubscribed, and the state is the changed state the call stored
C19_Witness ==
  \E i \in DOMAIN stack :
    LET f == stack[i] IN
      /\ Running(f) /\ ~f.nested /\ f.mutated
      /\ Len(f.invoked) = 2 /\ f.committed # f.preState

\* C20: a read of `state` returns _state and changes nothing: internal and
\* derived state, observer set and running iterations are as before and no
\* listener has been invoked; it returns what the previous read returned if
\* update has not been called in between.
C20_ReadNoEffect ==
  lastCall.op = "read"
    => /\ lastCall.ret = state
       /\ internalState = lastCall.pre.internalState
       /\ state = lastCall.pre.state
       /\ listeners = lastCall.pre.listeners
       /\ everInvoked = lastCall.pre.everInvoked
       /\ \A i \in DOMAIN stack : stack[i].idx = lastCall.pre.cursors[i]
       /\ lastCall.prev # Undefined => lastCall.ret = lastCall.prev

\* a listener reads `state` a second time, after the update changed it
C20_Witness ==
  /\ lastCall.op = "read" /\ lastCall.prev # Undefined /\ InListener
  /\ state # InitialDerived(kind, s0)

(* ====================================================================== *)
(* SpecTodo: the TodoViewModel of the test suite (src/unnamed/part_003), a  *)
(* subclass of the merge-style ViewModel whose prepareState recomputes the  *)
(* counts.  Its listener records `state`, as the one of the test does.      *)
(* ====================================================================== *)

MaxTodoOps == 3        \* add / toggle / remove / update calls in one behaviour

TodoIds == 1..MaxTodoOps

\* variant: the prepareState inherited from ViewModel
TodoPrepareState_Default(st) == st

\* TodoViewModel.prepareState
TodoPrepareState(st) ==
  Merge(st, [completedCount |-> Len(SelectSeq(st.todos, LAMBDA t : t.completed)),
             pendingCount |-> Len(SelectSeq(st.todos, LAMBDA t : ~t.completed))])

\* what the caller hands to the constructor: the defaultState of the test,
\* and states whose counts do not fit their todos
TodoInitialStates ==
  {[todos |-> t, completedCount |-> c, pendingCount |-> 0] :
     t \in {<<>>, <<[id |-> 1, text |-> "milk", completed |-> TRUE]>>},
     c \in {0, 5}}

\* new TodoViewModel(init); subscribe(() => updates.push(todoModel.state))
TodoNew(init, subscribed) ==
  [init |-> init, state |-> TodoPrepareState(init), nextId |-> 1,
   subscribed |-> subscribed, updates |-> <<>>, ops |-> 0]

\* ViewModel.update(partial), nextId being advanced by add
TodoUpdate(partial, nextId) ==
  LET st == TodoPrepareState(Merge(todoVm.state, partial)) IN
    /\ todoVm.ops < MaxTodoOps
    /\ todoVm' = [todoVm EXCEPT
                    !.state = st, !.nextId = nextId, !.ops = @ + 1,
                    !.updates = IF todoVm.subscribed THEN Append(@, st) ELSE @]
    /\ UNCHANGED <<coreVars, twoVms, twins, calculator, memory, pass,
                 closures, tasks>>

TodoAdd(text) ==
  TodoUpdate([todos |-> Append(todoVm.state.todos,
                               [id |-> todoVm.nextId, text |-> text,
                                completed |-> FALSE])],
             todoVm.nextId + 1)

TodoToggle(id) ==
  TodoUpdate([todos |-> [i \in DOMAIN todoVm.state.todos |->
                           LET todo == todoVm.state.todos[i] IN
                             IF todo.id = id
                             THEN [todo EXCEPT !.completed = ~@] ELSE todo]],
             todoVm.nextId)

TodoRemove(id) ==
  TodoUpdate([todos |-> SelectSeq(todoVm.state.todos, LAMBDA todo : todo.id # id)],
             todoVm.nextId)

\* a subclass method that passes counts of its own in the partial
TodoSetCounts(c) ==
  TodoUpdate([completedCount |-> c, pendingCount |-> c], todoVm.nextId)

InitTodo ==
  /\ kind = "merge" /\ Fresh
  /\ closures = Undefined /\ tasks = Undefined
  /\ twoVms = Undefined /\ twins = Undefined /\ calculator = Undefined
  /\ memory = Undefined /\ pass = Undefined
  /\ todoVm \in {TodoNew(init, b) : init \in TodoInitialStates, b \in BOOLEAN}

NextTodo ==
  \/ TodoAdd("milk")
  \/ \E id \in TodoIds : TodoToggle(id)
  \/ \E id \in TodoIds : TodoRemove(id)
  \/ TodoSetCounts(5)

SpecTodo == InitTodo /\ [][NextTodo]_vars

(* ====================================================================== *)
(* SpecCalc: the CalculatorWithDerivedState of the test suite               *)
(* (src/test/ViewModelWithComputedState.spec.ts).  Its base class           *)
(* ViewModelWithComputedState is documented in                              *)
(* src/docs/classes/ViewModelWithComputedState.md: update(partial) merges   *)
(* the partial into the internal state and recomputes the derived state.    *)
(* ====================================================================== *)

MaxCalcOps == 3        \* add / subtract / multiply / divide calls in one behaviour

CalcNumbers == {2, 3}
Operators == {"+", "-", "*", "/"}

Null == [null |-> TRUE]

\* JavaScript numbers met here are rationals: [num, den], den > 0, reduced
RECURSIVE Gcd(_, _)
Gcd(a, b) == IF b = 0 THEN a ELSE Gcd(b, a % b)

Abs(a) == IF a < 0 THEN 0 - a ELSE a

Rational(num, den) ==
  LET g == Gcd(Abs(num), Abs(den))
      sign == IF den < 0 THEN 0 - 1 ELSE 1
  IN [num |-> sign * (num \div g), den |-> sign * (den \div g)]

\* super.state.result + n, - n, * n, / n
Apply(operator, r, n) ==
  CASE operator = "+" -> Rational(r.num + n * r.den, r.den)
    [] operator = "-" -> Rational(r.num - n * r.den, r.den)
    [] operator = "*" -> Rational(r.num * n, r.den)
    [] operator = "/" -> Rational(r.num, r.den * n)

\* variant: lastOperation is taken from the front of the history
CalcComputedState_First(internal) ==
  [history |-> internal.history, result |-> internal.result,
   operationCount |-> Len(internal.history),
   lastOperation |-> IF internal.history = <<>> THEN Null
                     ELSE internal.history[1]]

\* CalculatorWithDerivedState.computedState
CalcComputedState(internal) ==
  [history |-> internal.history, result |-> internal.result,
   operationCount |-> Len(internal.history),
   lastOperation |-> IF internal.history = <<>> THEN Null
                     ELSE internal.history[Len(internal.history)]]

\* new CalculatorWithDerivedState(); subscribe(() => updates.push(calculator.state))
CalcNew(subscribed) ==
  LET internal == [history |-> <<>>, result |-> Rational(0, 1)] IN
    [internal |-> internal, state |-> CalcComputedState(internal),
     subscribed |-> subscribed, updates |-> <<>>, applied |-> <<>>]

\* ViewModelWithComputedState.update(partial)
CalcUpdate(partial, operation) ==
  LET internal == Merge(calculator.internal, partial)
      st == CalcComputedState(internal)
  IN /\ Len(calculator.applied) < MaxCalcOps
     /\ calculator' = [calculator EXCEPT
                         !.internal = internal, !.state = st,
                         !.updates = IF calculator.subscribed
                                     THEN Append(@, st) ELSE @,
                         !.applied = Append(@, operation)]
     /\ UNCHANGED <<coreVars, twoVms, twins, todoVm, memory, pass,
                 closures, tasks>>

\* add(n), subtract(n), multiply(n), divide(n)
Operate(operator, n) ==
  LET operation == [number |-> n, operator |-> operator] IN
    CalcUpdate([history |-> Append(calculator.state.history, operation),
                result |-> Apply(operator, calculator.state.result, n)],
               operation)

InitCalc ==
  /\ kind = "derived" /\ Fresh
  /\ closures = Undefined /\ tasks = Undefined
  /\ twoVms = Undefined /\ twins = Undefined /\ todoVm = Undefined
  /\ memory = Undefined /\ pass = Undefined
  /\ calculator \in {CalcNew(b) : b \in BOOLEAN}

NextCalc == \E operator \in Operators : \E n \in CalcNumbers : Operate(operator, n)

SpecCalc == InitCalc /\ [][NextCalc]_vars

(* ====================================================================== *)
(* SpecTwo: several instances of ViewModelWithDerivedState, as composed in  *)
(* the README (src/unnamed/part_005, AppViewModel), sharing the listener    *)
(* functions.  update is taken as one step: the listeners here only record. *)
(* ====================================================================== *)

NumInstances == 2      \* instances constructed
MaxTwoUpdates == 2     \* update calls in one behaviour

Instances == 1..NumInstances

\* variant: _listeners declared static, one Set for the class
Slot_Static(i) == 1

\* private _listeners = new Set(): a field of the instance
Slot(i) == i

TwoSnapshot ==
  [internalState |-> twoVms.internalState, state |-> twoVms.state,
   observers |-> [i \in Instances |-> twoVms.listeners[Slot(i)]],
   subs |-> twoVms.subs]

TwoLast(op, i, invoked) ==
  [op |-> op, inst |-> i, invoked |-> invoked, pre |-> TwoSnapshot]

\* new CounterViewModel(init) for every instance
TwoNew(inits) ==
  [internalState |-> inits,
   state |-> [i \in Instances |-> ComputeDerivedState(inits[i])],
   listeners |-> [i \in Instances |-> <<>>],
   subs |-> [i \in Instances |-> {}],
   updates |-> 0,
   last |-> [op |-> "none"]]

TwoSubscribe(i, l) ==
  /\ twoVms' = [twoVms EXCEPT
                  !.listeners[Slot(i)] = SetAdd(@, l),
                  !.subs[i] = @ \cup {l},
                  !.last = TwoLast("subscribe", i, <<>>)]
  /\ UNCHANGED <<coreVars, twins, todoVm, calculator, memory, pass,
                 closures, tasks>>

TwoUnsubscribe(i, l) ==
  /\ twoVms' = [twoVms EXCEPT
                  !.listeners[Slot(i)] = SetDelete(@, l),
                  !.subs[i] = @ \ {l},
                  !.last = TwoLast("unsubscribe", i, <<>>)]
  /\ UNCHANGED <<coreVars, twins, todoVm, calculator, memory, pass,
                 closures, tasks>>

\* update(u) on instance i, its listeners returning normally
TwoUpdate(i, u) ==
  LET internal == NextInternal(u, twoVms.internalState[i]) IN
    /\ twoVms.updates < MaxTwoUpdates
    /\ twoVms' =
         IF UpdaterThrows(u, twoVms.internalState[i])
         THEN [twoVms EXCEPT !.updates = @ + 1,
                             !.last = TwoLast("update", i, <<>>)]
         ELSE IF ProjectionThrows(internal)
         THEN [twoVms EXCEPT !.internalState[i] = internal,
                             !.updates = @ + 1,
                             !.last = TwoLast("update", i, <<>>)]
         ELSE [twoVms EXCEPT !.internalState[i] = internal,
                             !.state[i] = ComputeDerivedState(internal),
                             !.updates = @ + 1,
                             !.last = TwoLast("update", i,
                                              twoVms.listeners[Slot(i)])]
    /\ UNCHANGED <<coreVars, twins, todoVm, calculator, memory, pass,
                 closures, tasks>>

InitTwo ==
  /\ kind = "derived" /\ Fresh
  /\ closures = Undefined /\ tasks = Undefined
  /\ twins = Undefined /\ todoVm = Undefined /\ calculator = Undefined
  /\ memory = Undefined /\ pass = Undefined
  /\ twoVms \in {TwoNew(inits) : inits \in [Instances -> InitialStates("derived")]}

NextTwo ==
  \/ \E i \in Instances : \E l \in Listeners : TwoSubscribe(i, l)
  \/ \E i \in Instances : \E l \in Listeners : TwoUnsubscribe(i, l)
  \/ \E i \in Instances : \E u \in Updaters : TwoUpdate(i, u)

SpecTwo == InitTwo /\ [][NextTwo]_vars

(* ====================================================================== *)
(* SpecTwins: the two plain containers of src/unnamed/part_006 driven by    *)
(* the same calls.  `a` is ViewModel<S> extends ViewModelWithDerivedState   *)
(* <S, S> with computeDerivedState(state) = state (lines 132-145); `b` is   *)
(* the container without projection (lines 35-99).  update(p) reaches `a`   *)
(* as the updater s => ({...s, ...p}) and `b` as the partial p.             *)
(* ====================================================================== *)

MaxTwinUpdates == 2    \* update calls in one behaviour

TwinStates == {[count |-> c, label |-> "a"] : c \in 0..MaxInit}
TwinPartials == {[count |-> 1], [label |-> "b"], [count |-> 2, label |-> "b"]}

\* variant: the projection copies the field count only
IdentityProjection_Count(st) == [count |-> st.count]

\* ViewModel.computeDerivedState(state) { return state; }
IdentityProjection(st) == st

\* new ViewModel(init) twice
TwinsNew(init) ==
  [a |-> [internalState |-> init, state |-> IdentityProjection(init),
          listeners |-> <<>>],
   b |-> [state |-> init, listeners |-> <<>>],
   logA |-> <<>>, logB |-> <<>>, updates |-> 0]

TwinSubscribe(l) ==
  /\ twins' = [twins EXCEPT !.a.listeners = SetAdd(@, l),
                            !.b.listeners = SetAdd(@, l)]
  /\ UNCHANGED <<coreVars, twoVms, todoVm, calculator, memory, pass,
                 closures, tasks>>

TwinUnsubscribe(l) ==
  /\ twins' = [twins EXCEPT !.a.listeners = SetDelete(@, l),
                            !.b.listeners = SetDelete(@, l)]
  /\ UNCHANGED <<coreVars, twoVms, todoVm, calculator, memory, pass,
                 closures, tasks>>

\* a: _internalState = updater(_internalState);
\*    _state = computeDerivedState(_internalState); for (...) listener()
\* b: _state = { ...this._state, ...update }; _listeners.forEach((l) => l())
TwinUpdate(p) ==
  LET internal == Merge(twins.a.internalState, p) IN
    /\ twins.updates < MaxTwinUpdates
    /\ twins' = [twins EXCEPT
                   !.a.internalState = internal,
                   !.a.state = IdentityProjection(internal),
                   !.b.state = Merge(@, p),
                   !.logA = @ \o twins.a.listeners,
                   !.logB = @ \o twins.b.listeners,
                   !.updates = @ + 1]
    /\ UNCHANGED <<coreVars, twoVms, todoVm, calculator, memory, pass,
                 closures, tasks>>

InitTwins ==
  /\ kind = "derived" /\ Fresh
  /\ closures = Undefined /\ tasks = Undefined
  /\ twoVms = Undefined /\ todoVm = Undefined /\ calculator = Undefined
  /\ memory = Undefined /\ pass = Undefined
  /\ twins \in {TwinsNew(init) : init \in TwinStates}

NextTwins ==
  \/ \E l \in Listeners : TwinSubscribe(l)
  \/ \E l \in Listeners : TwinUnsubscribe(l)
  \/ \E p \in TwinPartials : TwinUpdate(p)

SpecTwins == InitTwins /\ [][NextTwins]_vars

(* ====================================================================== *)
(* SpecObjects: the state objects of a merge-style ViewModel                *)
(* (src/src/ViewModel.ts, lines 83-179) as JavaScript objects: `heap` is    *)
(* the sequence of objects allocated so far, a reference is an index into   *)
(* it.  The subclass either inherits prepareState (which returns its        *)
(* argument) or is the documented FormViewModel (which returns a new        *)
(* object).  A consumer may keep the object it reads from `state`.          *)
(* ====================================================================== *)

MaxObjUpdates == 2     \* update calls in one behaviour

Subclasses == {"plain", "form"}

\* variant: Object.assign(this._state, update), the old object is changed
Spread_Assign(heap, ref, p) ==
  [heap |-> [heap EXCEPT ![ref] = Merge(@, p)], ref |-> ref]

\* { ...this._state, ...update }: a new object
Spread(heap, ref, p) ==
  [heap |-> Append(heap, Merge(heap[ref], p)), ref |-> Len(heap) + 1]

\* prepareState(updatedState): ViewModel.prepareState returns its argument,
\* FormViewModel.prepareState returns { ...state, fullName: ... }
PrepareObject(subclass, heap, ref) ==
  IF subclass = "plain" THEN [heap |-> heap, ref |-> ref]
  ELSE [heap |-> Append(heap, PrepareState(heap[ref])), ref |-> Len(heap) + 1]

\* new Subclass(init): init is an object of the caller
ObjectsNew(subclass, init) ==
  LET prepared == PrepareObject(subclass, <<init>>, 1) IN
    [subclass |-> subclass, heap |-> prepared.heap, stateRef |-> prepared.ref,
     prevRef |-> 0, kept |-> {}, updates |-> 0]

\* get state(), the caller keeping the object and a note of its fields
ObjectsRead ==
  /\ memory' = [memory EXCEPT
                  !.kept = @ \cup {[ref |-> memory.stateRef,
                                    fields |-> memory.heap[memory.stateRef]]}]
  /\ UNCHANGED <<coreVars, twoVms, twins, todoVm, calculator, pass,
                 closures, tasks>>

\* update(p): this._state = this.prepareState({ ...this._state, ...update })
ObjectsUpdate(p) ==
  LET merged == Spread(memory.heap, memory.stateRef, p)
      prepared == PrepareObject(memory.subclass, merged.heap, merged.ref)
  IN /\ memory.updates < MaxObjUpdates
     /\ memory' = [memory EXCEPT !.heap = prepared.heap,
                                 !.stateRef = prepared.ref,
                                 !.prevRef = memory.stateRef,
                                 !.updates = @ + 1]
     /\ UNCHANGED <<coreVars, twoVms, twins, todoVm, calculator, pass,
                 closures, tasks>>

InitObjects ==
  /\ kind = "merge" /\ Fresh
  /\ closures = Undefined /\ tasks = Undefined
  /\ twoVms = Undefined /\ twins = Undefined /\ todoVm = Undefined
  /\ calculator = Undefined /\ pass = Undefined
  /\ memory \in {ObjectsNew(c, init) :
                   c \in Subclasses, init \in InitialStates("merge")}

NextObjects ==
  \/ ObjectsRead
  \/ \E p \in Partials : ObjectsUpdate(p)

SpecObjects == InitObjects /\ [][NextObjects]_vars

(* ====================================================================== *)
(* SpecPass: one update call on a container whose listeners subscribe and   *)
(* unsubscribe during the notification loop and never call update           *)
(* (src/src/ViewModelWithDerivedState.ts, lines 93-98 and 131-138).  Each   *)
(* listener has a body fixed at construction: a finite list of calls.  The  *)
(* program is single-threaded and every statement that can run does run,    *)
(* hence the weak fairness on the next-state relation.                      *)
(* ====================================================================== *)

\* listener bodies.  "renew" is
\*   const listener = () => { unsubscribe(); unsubscribe = vm.subscribe(listener); }
Bodies == {"nothing", "leave", "invite", "evict", "renew"}

\* the listener a body names besides itself
Other(l) == (l % NumListeners) + 1

\* the calls a body makes, in order
BodyCalls(body, l) ==
  CASE body = "nothing" -> <<>>
    [] body = "leave"   -> <<[op |-> "unsubscribe", l |-> l]>>
    [] body = "invite"  -> <<[op |-> "subscribe", l |-> Other(l)]>>
    [] body = "evict"   -> <<[op |-> "unsubscribe", l |-> Other(l)]>>
    [] body = "renew"   -> <<[op |-> "unsubscribe", l |-> l],
                             [op |-> "subscribe", l |-> l]>>

\* the insertion orders a Set of listeners can have
SetOrders ==
  {seq \in UNION {[1..n -> Listeners] : n \in 0..NumListeners} :
     \A i, j \in DOMAIN seq : seq[i] = seq[j] => i = j}

PassNew(order, bodies) ==
  [listeners |-> order, body |-> bodies, count |-> 0,
   pc |-> "idle", idx |-> 0, cur |-> NoListener, ip |-> 0]

PassCursor(p) == ShiftCursors(<<[idx |-> pass.idx]>>, p)[1].idx

\* update(updater): the two assignments, then the loop starts
PassUpdate ==
  /\ pass.pc = "idle"
  /\ pass' = [pass EXCEPT !.count = @ + 1, !.pc = "notify", !.idx = FirstIndex]
  /\ UNCHANGED <<coreVars, twoVms, twins, todoVm, calculator, memory,
                 closures, tasks>>

\* for (const listener of this._listeners) listener();
PassInvoke ==
  /\ pass.pc = "notify" /\ pass.cur = NoListener
  /\ pass.idx <= Len(pass.listeners)
  /\ pass' = [pass EXCEPT !.cur = pass.listeners[pass.idx],
                          !.idx = @ + 1, !.ip = 1]
  /\ UNCHANGED <<coreVars, twoVms, twins, todoVm, calculator, memory,
                 closures, tasks>>

PassNextCall == BodyCalls(pass.body[pass.cur], pass.cur)[pass.ip]

PassMoreCalls ==
  /\ pass.cur # NoListener
  /\ pass.ip <= Len(BodyCalls(pass.body[pass.cur], pass.cur))

\* the running listener calls subscribe(l)
PassSubscribe ==
  /\ PassMoreCalls /\ PassNextCall.op = "subscribe"
  /\ pass' = [pass EXCEPT !.listeners = SetAdd(@, PassNextCall.l),
                          !.ip = @ + 1]
  /\ UNCHANGED <<coreVars, twoVms, twins, todoVm, calculator, memory,
                 closures, tasks>>

\* the running listener calls the unsubscribe function of l
PassUnsubscribe ==
  /\ PassMoreCalls /\ PassNextCall.op = "unsubscribe"
  /\ pass' = [pass EXCEPT
                !.listeners = SetDelete(@, PassNextCall.l),
                !.idx = PassCursor(IndexOf(pass.listeners, PassNextCall.l)),
                !.ip = @ + 1]
  /\ UNCHANGED <<coreVars, twoVms, twins, todoVm, calculator, memory,
                 closures, tasks>>

\* the running listener returns
PassListenerReturn ==
  /\ pass.cur # NoListener /\ ~PassMoreCalls
  /\ pass' = [pass EXCEPT !.cur = NoListener, !.ip = 0]
  /\ UNCHANGED <<coreVars, twoVms, twins, todoVm, calculator, memory,
                 closures, tasks>>

\* the loop has no entry left: update returns
PassReturn ==
  /\ pass.pc = "notify" /\ pass.cur = NoListener
  /\ pass.idx > Len(pass.listeners)
  /\ pass' = [pass EXCEPT !.pc = "done"]
  /\ UNCHANGED <<coreVars, twoVms, twins, todoVm, calculator, memory,
                 closures, tasks>>

InitPass ==
  /\ kind = "derived" /\ Fresh
  /\ closures = Undefined /\ tasks = Undefined
  /\ twoVms = Undefined /\ twins = Undefined /\ todoVm = Undefined
  /\ calculator = Undefined /\ memory = Undefined
  /\ pass \in {PassNew(order, bodies) :
                 order \in SetOrders, bodies \in [Listeners -> Bodies]}

NextPass ==
  \/ PassUpdate
  \/ PassInvoke
  \/ PassSubscribe
  \/ PassUnsubscribe
  \/ PassListenerReturn
  \/ PassReturn

SpecPass == InitPass /\ [][NextPass]_vars /\ WF_vars(NextPass)

(* ====================================================================== *)
(* SpecClosures: subscribe and the functions it returns                     *)
(* (src/src/ViewModelWithDerivedState.ts, lines 93-98).  Every subscribe    *)
(* call returns a new function that closes over its `listener` argument;    *)
(* outside code keeps the functions and calls them in any order, any        *)
(* number of times.                                                         *)
(* ====================================================================== *)

MaxSubscribes == 3     \* subscribe calls in one behaviour
MaxCalls == 2          \* calls of returned unsubscribe functions

\* variant: the function removes the listener only while the subscription
\* made by its own subscribe call is the current one
Revoke_OwnCall(seq, closure, current) ==
  IF closure.call = current[closure.listener]
  THEN SetDelete(seq, closure.listener) ELSE seq

\* () => { this._listeners.delete(listener); }
Revoke(seq, closure, current) == SetDelete(seq, closure.listener)

ClosuresNew ==
  [listeners |-> <<>>, returned |-> <<>>,
   current |-> [l \in Listeners |-> 0],  \* the subscribe call that last added l
   calls |-> 0, last |-> Undefined]

\* subscribe(l): this._listeners.add(listener); return () => { ... }
ClosureSubscribe(l) ==
  /\ Len(closures.returned) < MaxSubscribes
  /\ closures' =
       [closures EXCEPT
          !.listeners = SetAdd(@, l),
          !.returned = Append(@, [listener |-> l,
                                  call |-> Len(closures.returned) + 1]),
          !.current[l] = IF l \in Range(closures.listeners) THEN @
                         ELSE Len(closures.returned) + 1,
          !.last = Undefined]
  /\ UNCHANGED <<coreVars, twoVms, twins, todoVm, calculator, memory, pass,
                 tasks>>

\* outside code calls the h-th function subscribe has returned
ClosureCall(h) ==
  /\ closures.calls < MaxCalls
  /\ closures' =
       [closures EXCEPT
          !.listeners = Revoke(@, closures.returned[h], closures.current),
          !.calls = @ + 1,
          !.last = [h |-> h,
                    present |-> closures.returned[h].listener
                                  \in Range(closures.listeners),
                    before |-> closures.listeners]]
  /\ UNCHANGED <<coreVars, twoVms, twins, todoVm, calculator, memory, pass,
                 tasks>>

InitClosures ==
  /\ kind = "derived" /\ Fresh
  /\ twoVms = Undefined /\ twins = Undefined /\ todoVm = Undefined
  /\ calculator = Undefined /\ memory = Undefined /\ pass = Undefined
  /\ tasks = Undefined
  /\ closures = ClosuresNew

NextClosures ==
  \/ \E l \in Listeners : ClosureSubscribe(l)
  \/ \E h \in DOMAIN closures.returned : ClosureCall(h)

SpecClosures == InitClosures /\ [][NextClosures]_vars

(* ====================================================================== *)
(* SpecAsync: the asynchronous addTodo of the README's TodosViewModel       *)
(* (src/unnamed/part_005, lines 220-249) on a merge-style ViewModel.        *)
(* Several calls are in flight at once.  A call runs up to its await; when  *)
(* createTodo settles, the rest of the method runs as one job of the event  *)
(* loop: no other job runs between its read of `state` and its update.      *)
(* The todo created for task t is written t.                                *)
(* ====================================================================== *)

NumTasks == 3          \* addTodo calls started

Tasks == 1..NumTasks

\* variant: the list is built from the todos read before the await
BuildTodos_Stale(atCall, current, todo) == Append(atCall, todo)

\* [...super.state.todos, todo], evaluated after the await
BuildTodos(atCall, current, todo) == Append(current, todo)

AsyncNew ==
  [state |-> [todos |-> <<>>, loading |-> FALSE, failed |-> FALSE],
   pc |-> [t \in Tasks |-> "idle"],
   atCall |-> [t \in Tasks |-> <<>>],   \* state.todos when addTodo was called
   notified |-> 0]                      \* invocations of the subscribed listener

\* addTodo(text) is called: it runs to `await this.api.createTodo(text)`
AddTodoCall(t) ==
  /\ tasks.pc[t] = "idle"
  /\ tasks' = [tasks EXCEPT !.pc[t] = "awaiting",
                            !.atCall[t] = tasks.state.todos]
  /\ UNCHANGED <<coreVars, twoVms, twins, todoVm, calculator, memory, pass,
                 closures>>

\* createTodo resolves: super.update({ todos: [...super.state.todos, todo] })
\* merges the partial, and update notifies the listener
CreateTodoResolves(t) ==
  /\ tasks.pc[t] = "awaiting"
  /\ tasks' = [tasks EXCEPT
                 !.pc[t] = "done",
                 !.state = Merge(@, [todos |-> BuildTodos(tasks.atCall[t],
                                                          tasks.state.todos, t)]),
                 !.notified = @ + 1]
  /\ UNCHANGED <<coreVars, twoVms, twins, todoVm, calculator, memory, pass,
                 closures>>

\* createTodo rejects: catch { }, no update
CreateTodoRejects(t) ==
  /\ tasks.pc[t] = "awaiting"
  /\ tasks' = [tasks EXCEPT !.pc[t] = "failed"]
  /\ UNCHANGED <<coreVars, twoVms, twins, todoVm, calculator, memory, pass,
                 closures>>

InitAsync ==
  /\ kind = "merge" /\ Fresh
  /\ twoVms = Undefined /\ twins = Undefined /\ todoVm = Undefined
  /\ calculator = Undefined /\ memory = Undefined /\ pass = Undefined
  /\ closures = Undefined
  /\ tasks = AsyncNew

NextAsync ==
  \/ \E t \in Tasks : AddTodoCall(t)
  \/ \E t \in Tasks : CreateTodoResolves(t)
  \/ \E t \in Tasks : CreateTodoRejects(t)

SpecAsync == InitAsync /\ [][NextAsync]_vars

(* ======================= properties: C21 .. C30 ======================= *)

Raises == {"updaterThrew", "projectionThrew", "listenerThrew"}

\* C21: a subscribe, unsubscribe or update call on one instance leaves the
\* internal state, derived state and observer set of every other instance
\* as they were and invokes only listeners subscribed to the instance it
\* was made on; the observer set of an instance is what was subscribed to
\* that instance, so a listener unsubscribed from one instance stays
\* subscribed to the others.
C21_InstancesIndependent ==
  twoVms # Undefined
    => /\ \A i \in Instances : Range(twoVms.listeners[Slot(i)]) = twoVms.subs[i]
       /\ twoVms.last.op # "none"
            => /\ \A j \in Instances \ {twoVms.last.inst} :
                    /\ twoVms.internalState[j] = twoVms.last.pre.internalState[j]
                    /\ twoVms.state[j] = twoVms.last.pre.state[j]
                    /\ twoVms.listeners[Slot(j)] = twoVms.last.pre.observers[j]
               /\ Range(twoVms.last.invoked)
                    = (IF twoVms.last.invoked = <<>> THEN {}
                       ELSE twoVms.last.pre.subs[twoVms.last.inst])

\* a listener subscribed to both instances was unsubscribed from one after
\* an update, and is still subscribed to the other
C21_Witness ==
  /\ twoVms # Undefined /\ twoVms.last.op = "unsubscribe" /\ twoVms.updates > 0
  /\ \E l \in Listeners : \E j \in Instances :
       /\ l \in twoVms.last.pre.subs[twoVms.last.inst]
       /\ l \notin twoVms.subs[twoVms.last.inst]
       /\ j # twoVms.last.inst /\ l \in twoVms.subs[j]

\* C22: every listener invocation made by update is passed the new state as
\* its argument.
C22_ListenerReceivesState ==
  \A i \in DOMAIN stack :
    Running(stack[i]) => stack[i].entryArgs = <<stack[i].entryRead>>

\* C26: merge-style update: an object read from `state` keeps the field
\* values it had when it was read, whatever updates follow, and after an
\* update `state` is another object than before.
C26_OldStateUntouched ==
  memory # Undefined
    => /\ \A k \in memory.kept : memory.heap[k.ref] = k.fields
       /\ memory.updates > 0 => memory.stateRef # memory.prevRef

\* an object read before two updates differs from the current state
C26_Witness ==
  /\ memory # Undefined /\ memory.updates = 2
  /\ \E k \in memory.kept :
       /\ k.ref # memory.stateRef /\ k.ref # memory.prevRef
       /\ k.fields # memory.heap[memory.stateRef]

\* C27: merge-style update whose prepareState throws: the exception reaches
\* the caller of update, `state` is the value it was before the call and no
\* listener has been invoked for the call.
C27_PrepareThrowsNoChange ==
  (kind = "merge" /\ lastDone.pc = "projectionThrew")
    => /\ exc
       /\ state = lastDone.preState
       /\ lastDone.invoked = <<>>
       /\ lastDone.committed = Undefined

\* prepareState threw in an update that followed a committed one, a listener
\* being subscribed
C27_Witness ==
  /\ kind = "merge" /\ lastDone.pc = "projectionThrew"
  /\ numUpdates = 2 /\ subs # {} /\ everInvoked # {}
  /\ state # InitialDerived(kind, s0)

\* C28: an update call whose listeners subscribe and unsubscribe but never
\* call update ends: once the notification loop has started, update returns.
C28_UpdateTerminates ==
  (pass # Undefined /\ pass.pc = "notify") ~> (pass # Undefined /\ pass.pc = "done")

\* C29: a listener throws during a pass: the exception leaves update at
\* once, the thrower is the last listener the pass has invoked (those after
\* it in the observer set are not invoked for this update), and what the
\* update committed stays in place.
C29_ListenerThrowAborts ==
  lastDone.pc = "listenerThrew"
    => /\ exc
       /\ lastDone.cur # NoListener
       /\ lastDone.invoked # <<>>
       /\ lastDone.invoked[Len(lastDone.invoked)] = lastDone.cur
       /\ ~lastDone.mutated
            => \A j \in lastDone.idx..Len(listeners) :
                 listeners[j] \notin Range(lastDone.invoked)
       /\ ~lastDone.nested
            => /\ state = lastDone.committed
               /\ kind = "derived" => internalState = lastDone.stored

\* the first of two listeners threw after the update changed the state
C29_Witness ==
  /\ lastDone.pc = "listenerThrew" /\ ~lastDone.mutated /\ ~lastDone.nested
  /\ Len(lastDone.invoked) = 1 /\ Len(listeners) = 2
  /\ lastDone.committed # lastDone.preState

C31_Original ==
  /\ \A i \in DOMAIN stack :
       \A l \in stack[i].added : Count(stack[i].invoked, l) <= 1
  /\ lastDone.pc # "none"
       => \A l \in lastDone.added : Count(lastDone.invoked, l) = 1

\* C31, amended: the pass runs over the live set.  A listener absent when
\* the pass began, subscribed during it and not unsubscribed during it is
\* invoked at most once while the pass runs, and has been invoked exactly
\* once when update returns; a pass ended by an exception may not have
\* reached it.
C31_LiveSetUnlessAborted ==
  /\ \A i \in DOMAIN stack :
       \A l \in stack[i].added \ stack[i].dropped :
         Count(stack[i].invoked, l) <= 1
  /\ lastDone.pc = "returned"
       => \A l \in lastDone.added \ lastDone.dropped :
            Count(lastDone.invoked, l) = 1

\* a pass has returned after invoking a listener that joined on the way
C31_Witness ==
  /\ lastDone.pc = "returned"
  /\ \E l \in lastDone.added \ lastDone.dropped :
       /\ l \notin lastDone.atStart
       /\ Count(lastDone.invoked, l) = 1
       /\ Len(lastDone.invoked) > 1

\* what subscribe and unsubscribe must leave alone: both states, the
\* projection counter and the set of listeners ever invoked
SameButListeners(pre) ==
  /\ internalState = pre.internalState /\ state = pre.state
  /\ projCalls = pre.projCalls /\ everInvoked = pre.everInvoked

\* the observer set after subscribe(l) / after the unsubscribe function of l
SetChangeRight ==
  /\ lastCall.op = "subscribe"
       => /\ Range(listeners) = Range(lastCall.pre.listeners) \cup {lastCall.l}
          /\ SameButListeners(lastCall.pre)
          /\ [i \in DOMAIN stack |-> stack[i].idx] = lastCall.pre.cursors
  /\ lastCall.op = "unsubscribe"
       => /\ Range(listeners) = Range(lastCall.pre.listeners) \ {lastCall.l}
          /\ SameButListeners(lastCall.pre)

\* an update call that has ended, with no subscribe or unsubscribe call
\* during it, has left the observer set as it found it
UpdateKeepsSet ==
  (lastDone.pc # "none" /\ ~lastDone.mutated)
    => listeners = lastDone.preListeners

\* C32 as stated: the observer set changes only through subscribe and
\* unsubscribe, which invoke no listener and change no state, and every
\* update call that has ended, successful or failed, has notified every
\* listener that was subscribed throughout.
C32_Original ==
  /\ SetChangeRight /\ UpdateKeepsSet
  /\ lastDone.pc # "none"
       => \A l \in Range(lastDone.preListeners) \ lastDone.dropped :
            l \in Range(lastDone.invoked)

\* C32, amended: the same, the notification being owed only by update
\* calls that return: one whose updater, projection or listener throws
\* ends before it has notified every subscribed listener.
C32_SetChangesOnlyBySubscription ==
  /\ SetChangeRight /\ UpdateKeepsSet
  /\ lastDone.pc = "returned"
       => \A l \in Range(lastDone.preListeners) \ lastDone.dropped :
            l \in Range(lastDone.invoked)

\* the second update, after a failed one, has notified both listeners
C32_Witness ==
  /\ lastDone.pc = "returned" /\ ~lastDone.mutated
  /\ lastDone.afterRaise /\ numUpdates = 2
  /\ Len(lastDone.preListeners) = 2
  /\ Range(lastDone.invoked) = Range(listeners)

\* C35: listeners are invoked in the order in which they were subscribed.
\* subscribe(l) leaves the order as it is when l is subscribed and puts l
\* last when it is not (so after unsubscribe and subscribe l is last),
\* unsubscribe keeps the others in their order, and a pass invokes the
\* listeners in that order.
C35_SubscriptionOrder ==
  /\ lastCall.op = "subscribe"
       => listeners = IF lastCall.present THEN lastCall.pre.listeners
                      ELSE lastCall.pre.listeners \o <<lastCall.l>>
  /\ lastCall.op = "unsubscribe"
       => /\ lastCall.l \notin Range(listeners)
          /\ \A x, y \in Range(listeners) :
               IndexOf(listeners, x) < IndexOf(listeners, y)
                 <=> IndexOf(lastCall.pre.listeners, x)
                       < IndexOf(lastCall.pre.listeners, y)
  /\ \A i \in DOMAIN stack :
       (stack[i].pc = "notify" /\ ~stack[i].mutated)
         => stack[i].invoked = SubSeq(listeners, 1, Len(stack[i].invoked))
  /\ (lastDone.pc = "returned" /\ ~lastDone.mutated)
       => lastDone.invoked = listeners

\* the second pass invokes listener 2, subscribed from the start, before
\* listener 1, which was subscribed or subscribed again after the first
C35_Witness ==
  /\ lastDone.pc = "returned" /\ ~lastDone.mutated /\ numUpdates = 2
  /\ lastDone.invoked = <<2, 1>>
  /\ 2 \in stable /\ 1 \notin stable /\ 1 \in unsubscribed \cup subs

\* C33: right after any unsubscribe function ever returned for listener l
\* has been called, l is not in the observer set, whichever subscribe call
\* returned the function, and the other listeners are as before.
C33_BoundToListener ==
  (closures # Undefined /\ closures.last # Undefined)
    => LET l == closures.returned[closures.last.h].listener IN
         /\ l \notin Range(closures.listeners)
         /\ Range(closures.listeners) = Range(closures.last.before) \ {l}

\* the function of an earlier subscribe call has been called while the
\* listener was subscribed by a later subscribe call
C33_Witness ==
  /\ closures # Undefined /\ closures.last # Undefined
  /\ closures.last.present
  /\ LET c == closures.returned[closures.last.h] IN
       /\ c.call < closures.current[c.listener]
       /\ c.call < Len(closures.returned)

\* C34: whatever the interleaving of the addTodo calls, no change is lost:
\* at every moment todos holds the todo of every call whose createTodo has
\* resolved, once, and no other; in particular when all calls have finished.
C34_NoLostTodo ==
  tasks # Undefined
    => /\ \A t \in Tasks :
            Count(tasks.state.todos, t) = IF tasks.pc[t] = "done" THEN 1 ELSE 0
       /\ tasks.notified = Len(tasks.state.todos)

\* all calls have finished, and one that resolved had been called when
\* todos was shorter than it was at its update
C34_Witness ==
  /\ tasks # Undefined
  /\ \A t \in Tasks : tasks.pc[t] \in {"done", "failed"}
  /\ \E t \in Tasks : tasks.pc[t] = "failed"
  /\ \E t \in Tasks :
       /\ tasks.pc[t] = "done"
       /\ Len(tasks.atCall[t]) + 1 < IndexOf(tasks.state.todos, t)

TodoCountsRight(st) ==
  /\ st.completedCount = Cardinality({i \in DOMAIN st.todos : st.todos[i].completed})
  /\ st.pendingCount = Cardinality({i \in DOMAIN st.todos : ~st.todos[i].completed})
  /\ st.completedCount + st.pendingCount = Len(st.todos)

\* C24: in every state of the Todo view model, and in every state its
\* listener has recorded, completedCount is the number of completed todos
\* and pendingCount the number of the others, whatever counts the caller
\* passed to the constructor or in a partial.
C24_TodoCounts ==
  todoVm # Undefined
    => /\ TodoCountsRight(todoVm.state)
       /\ \A i \in DOMAIN todoVm.updates : TodoCountsRight(todoVm.updates[i])

\* constructed with a wrong count; two todos, one completed, after three calls
C24_Witness ==
  /\ todoVm # Undefined /\ todoVm.init.completedCount = 5
  /\ todoVm.ops = 3 /\ Len(todoVm.updates) = 3
  /\ todoVm.state.completedCount = 1 /\ todoVm.state.pendingCount = 1

\* C25: Calculator with computed state: history lists the operations applied
\* in call order, operationCount is their number and lastOperation the most
\* recent one, null when there is none; the same in every recorded state.
C25_CalculatorDerived ==
  calculator # Undefined
    => /\ calculator.state.history = calculator.applied
       /\ calculator.state.operationCount = Len(calculator.applied)
       /\ calculator.state.lastOperation =
            (IF calculator.applied = <<>> THEN Null
             ELSE calculator.applied[Len(calculator.applied)])
       /\ \A i \in DOMAIN calculator.updates :
            /\ calculator.updates[i].history = SubSeq(calculator.applied, 1, i)
            /\ calculator.updates[i].operationCount = i
            /\ calculator.updates[i].lastOperation = calculator.applied[i]

\* three operations applied, the last one different from the first
C25_Witness ==
  /\ calculator # Undefined /\ Len(calculator.applied) = 3
  /\ Len(calculator.updates) = 3
  /\ calculator.applied[1] # calculator.applied[3]
  /\ calculator.state.lastOperation.operator = "/"

====
